---- MODULE Spec2Model ----
(***************************************************************************)
(* Low-frequency component analysis (LFCA) of notebooks/                   *)
(* ForceSMIP_LFCA_simple.ipynb: low_pass_weights, filter_padding,          *)
(* filter_ts and lfca, as state machines over exact numbers.               *)
(*                                                                         *)
(* Numbers.  A float64 is modelled by an exact value <<n, d, b>> standing  *)
(* for (n/d)*sqrt(b), b square-free, or by one of the IEEE specials the    *)
(* code can produce: NaN, +Inf, -Inf.  Rounding is not modelled.           *)
(* Library calls (eofs.Eof, numpy.linalg.eigh, numpy.polyfit,              *)
(* scipy.signal) are modelled at their call sites by their documented      *)
(* contract; where the result depends on the build (NaN handed to LAPACK,  *)
(* tie order of an unstable sort) the model takes every outcome.           *)
(***************************************************************************)
EXTENDS Integers, Sequences, FiniteSets, TLC

\* ------------------------------------------------------------------------
\* Bounds of the model
\* ------------------------------------------------------------------------
MaxT == 3
MaxN == 3
MaxK == 2
MaxCutoff == 1
MaxEig == 2
MaxLen == 5
MaxFCutoff == 3
MaxWindow == 7

\* ------------------------------------------------------------------------
\* Exact numbers with the IEEE specials
\* ------------------------------------------------------------------------
NaN == <<0, 0, 1>>
PInf == <<1, 0, 1>>
NInf == <<-1, 0, 1>>
Zero == <<0, 1, 1>>
One == <<1, 1, 1>>
\* a sum of two different irrational parts: outside the model's numbers
Unrep == <<0, 0, 0>>

Abs(i) == IF i < 0 THEN -i ELSE i
Sgn(i) == IF i < 0 THEN -1 ELSE IF i > 0 THEN 1 ELSE 0
Min(a, b) == IF a <= b THEN a ELSE b
Max(a, b) == IF a >= b THEN a ELSE b

RECURSIVE GCD(_, _)
GCD(a, b) == IF b = 0 THEN a ELSE GCD(b, a % b)

\* the largest k with k*k dividing m (m >= 1), searched from k upwards
RECURSIVE SqPartFrom(_, _)
SqPartFrom(m, k) == IF k * k > m THEN 1
                    ELSE LET r == SqPartFrom(m, k + 1)
                         IN IF r > 1 THEN r
                            ELSE IF m % (k * k) = 0 THEN k ELSE 1
SqPart(m) == SqPartFrom(m, 1)

Int2F(i) == <<i, 1, 1>>
IsNaN(a) == a[2] = 0 /\ a[1] = 0
IsInf(a) == a[2] = 0 /\ a[1] # 0
IsFinite(a) == a[2] # 0
IsZero(a) == a[2] # 0 /\ a[1] = 0

Norm(n, d, b) ==
    IF d = 0 THEN <<Sgn(n), 0, 1>>
    ELSE IF n = 0 THEN Zero
    ELSE LET g == GCD(Abs(n), d) IN <<n \div g, d \div g, b>>

FNeg(a) == <<-a[1], a[2], a[3]>>

FMul(a, c) ==
    IF a = Unrep \/ c = Unrep THEN Unrep
    ELSE LET g == GCD(a[3], c[3])
         IN Norm(a[1] * c[1] * g, a[2] * c[2], (a[3] \div g) * (c[3] \div g))

FRecip(a) ==
    IF a = Unrep THEN Unrep
    ELSE IF IsNaN(a) THEN NaN
    ELSE IF IsInf(a) THEN Zero
    ELSE IF a[1] = 0 THEN PInf
    ELSE Norm(Sgn(a[1]) * a[2], Abs(a[1]) * a[3], a[3])

FDiv(a, c) == FMul(a, FRecip(c))

FAdd(a, c) ==
    IF a = Unrep \/ c = Unrep THEN Unrep
    ELSE IF IsNaN(a) \/ IsNaN(c) THEN NaN
    ELSE IF IsInf(a) /\ IsInf(c) THEN (IF a = c THEN a ELSE NaN)
    ELSE IF IsInf(a) THEN a
    ELSE IF IsInf(c) THEN c
    ELSE IF a[1] = 0 THEN c
    ELSE IF c[1] = 0 THEN a
    ELSE IF a[3] # c[3] THEN Unrep
    ELSE Norm(a[1] * c[2] + c[1] * a[2], a[2] * c[2], a[3])

FSub(a, c) == FAdd(a, FNeg(c))

\* numpy.sqrt of a rational: exact, (n/d)^(1/2) = (k/d) * sqrt(s), n*d = k*k*s
FSqrt(a) ==
    IF a = Unrep \/ a[3] # 1 THEN Unrep
    ELSE IF IsNaN(a) \/ a[1] < 0 THEN NaN
    ELSE IF IsInf(a) THEN PInf
    ELSE IF a[1] = 0 THEN Zero
    ELSE LET m == a[1] * a[2]
             k == SqPart(m)
         IN Norm(k, a[2], m \div (k * k))

\* a < 0, a >= 0 as IEEE compares: every comparison with NaN is false
FNegative(a) == a # Unrep /\ a[1] < 0
FGeZero(a) == a # Unrep /\ ~IsNaN(a) /\ a[1] >= 0
\* a <= c for rationals and infinities
FLe(a, c) ==
    /\ ~IsNaN(a) /\ ~IsNaN(c)
    /\ IF IsInf(a) \/ IsInf(c)
       THEN a = c \/ a = NInf \/ c = PInf
       ELSE a[1] * c[2] <= c[1] * a[2]
FGe(a, c) == FLe(c, a)

RECURSIVE FSum(_, _)
FSum(f, n) == IF n = 0 THEN Zero ELSE FAdd(FSum(f, n - 1), f[n])

\* vectors are sequences, matrices are sequences of rows
Dot(u, v) == FSum([i \in 1..Len(u) |-> FMul(u[i], v[i])], Len(u))
Rows(m) == Len(m)
Cols(m) == IF Len(m) = 0 THEN 0 ELSE Len(m[1])
Col(m, j) == [i \in 1..Rows(m) |-> m[i][j]]
Transpose(m) == [j \in 1..Cols(m) |-> Col(m, j)]
MatMul(a, c) == [i \in 1..Rows(a) |-> [j \in 1..Cols(c) |-> Dot(a[i], Col(c, j))]]
SubSeqF(s, a, b) == [i \in 1..Max(0, b - a + 1) |-> s[a + i - 1]]
\* a slice taken without the [::-1]
Unreversed(s) == s
Reverse(s) == [i \in 1..Len(s) |-> s[Len(s) + 1 - i]]

\* ------------------------------------------------------------------------
\* Results of a call: the exception class raised ("none": returned) and the
\* value returned
\* ------------------------------------------------------------------------
Raised(e) == [err |-> e, val |-> <<>>]
Returned(v) == [err |-> "none", val |-> v]

\* ------------------------------------------------------------------------
\* low_pass_weights(window, cutoff)
\* ------------------------------------------------------------------------
\* One tap: k is its distance from the centre tap; v is its value, 2*cutoff
\* at the centre.  A side tap firstfactor[k]*sigma[k] is a product of sines,
\* outside the exact numbers: it is identified by k and carries Unrep
\* (sin(0) = 0 makes it zero when the cutoff is zero).
Tap(k, cutoff) == [k |-> k, v |-> IF k = 0 THEN FMul(Int2F(2), cutoff)
                                  ELSE IF IsZero(cutoff) THEN Zero ELSE Unrep]

LowPassWeightsFull(window, cutoff) ==
    LET order == ((window - 1) \div 2) + 1
        nwts == 2 * order + 1
        n == nwts \div 2
    IN  \* 0-based index i of w is position i+1; w[0] and w[nwts-1] stay 0.0
        [p \in 1..nwts |->
            LET i == p - 1
            IN IF i = n THEN Tap(0, cutoff)
               ELSE IF i >= 1 /\ i <= n - 1 THEN Tap(n - i, cutoff)
               ELSE IF i >= n + 1 /\ i <= nwts - 2 THEN Tap(i - n, cutoff)
               ELSE [k |-> Abs(i - n), v |-> Zero]]

\* the taps with the two zero end entries of w left in
LowPassWeightsUntrimmed(window, cutoff) ==
    Returned(LowPassWeightsFull(window, cutoff))

LowPassWeights(window, cutoff) ==
    LET w == LowPassWeightsFull(window, cutoff)
    IN Returned(SubSeqF(w, 2, Len(w) - 1))

\* ------------------------------------------------------------------------
\* numpy.polyfit(t, ts, 1) with t = 0..len(ts)-1, as filter_padding calls it
\* ------------------------------------------------------------------------
AllFinite(ts) == \A i \in 1..Len(ts) : IsFinite(ts[i])

PolyfitExact(ts) ==
    LET L == Len(ts)
        st == FSum([i \in 1..L |-> Int2F(i - 1)], L)
        stt == FSum([i \in 1..L |-> Int2F((i - 1) * (i - 1))], L)
        sy == FSum(ts, L)
        sty == FSum([i \in 1..L |-> FMul(Int2F(i - 1), ts[i])], L)
        den == FSub(FMul(Int2F(L), stt), FMul(st, st))
        slope == FDiv(FSub(FMul(Int2F(L), sty), FMul(st, sy)), den)
        icpt == FDiv(FSub(sy, FMul(slope, st)), Int2F(L))
    IN <<slope, icpt>>

\* The set of outcomes.  An empty series is refused (TypeError).  With a
\* non-finite sample, or with one sample (the column of t is scaled by its
\* zero norm), LAPACK's least squares is handed NaN: depending on the build
\* it raises LinAlgError or returns NaN coefficients.
PolyfitSet(ts) ==
    IF Len(ts) = 0 THEN {Raised("TypeError")}
    ELSE IF Len(ts) = 1 \/ ~AllFinite(ts)
    THEN {Raised("LinAlgError"), Returned(<<NaN, NaN>>)}
    ELSE {Returned(PolyfitExact(ts))}

\* numpy.poly1d(z)(t) for degree 1
Poly1d(z, t) == FAdd(FMul(z[1], Int2F(t)), z[2])

\* ------------------------------------------------------------------------
\* filter_padding(ts, window, ftype, detrend)         (detrend_poly = 1)
\* ------------------------------------------------------------------------
\* a[lo:hi] = b in numpy: b fits when it has the slice's length or length 1
Broadcasts(lenB, lenSlice) == lenB = lenSlice \/ lenB = 1

PadWith(ts, ts_in, window, ftype, detrend, z) ==
    LET L == Len(ts)
        lenR == Min(L, window)
        head == SubSeqF(ts_in, 1, lenR)
        tail == SubSeqF(ts_in, L - lenR + 1, L)
        left == IF ftype = "mirror" THEN Reverse(head) ELSE tail
        right == IF ftype = "mirror" THEN Reverse(tail) ELSE head
        pick(s, i) == IF Len(s) = 1 THEN s[1] ELSE s[i]
        ts_pad == [p \in 1..(2 * window + L) |->
                     IF p <= window THEN pick(left, p)
                     ELSE IF p <= window + L THEN ts_in[p - window]
                     ELSE pick(right, p - window - L)]
    IN IF ftype \notin {"mirror", "periodic"} THEN Raised("ValueError")
       ELSE IF ~Broadcasts(lenR, window) THEN Raised("ValueError")
       ELSE IF detrend
       THEN Returned([p \in 1..(2 * window + L) |->
                        FAdd(ts_pad[p], Poly1d(z, p - 1 - window))])
       ELSE Returned(ts_pad)

FilterPaddingSet(ts, window, ftype, detrend) ==
    IF detrend
    THEN { IF f.err # "none" THEN Raised(f.err)
           ELSE PadWith(ts, [i \in 1..Len(ts) |-> FSub(ts[i], Poly1d(f.val, i - 1))],
                        window, ftype, detrend, f.val) : f \in PolyfitSet(ts) }
    ELSE {PadWith(ts, ts, window, ftype, detrend, <<Zero, Zero>>)}

\* ------------------------------------------------------------------------
\* scipy.signal.convolve(a, v, 'same'), butter and filtfilt
\* ------------------------------------------------------------------------
\* A filtered sample is a weighted sum of input samples: it is described by
\* the input positions lo..hi it reads (centre: the one under the centre
\* tap), whether the sum reaches beyond the ends of the input (where 'same'
\* assumes zeros), and whether it is finite.
Sample(a, centre, lo, hi) ==
    [centre |-> centre, lo |-> lo, hi |-> hi,
     zeros |-> lo < 1 \/ hi > Len(a),
     cls |-> IF \A i \in Max(1, lo)..Min(Len(a), hi) : IsFinite(a[i])
             THEN "fin" ELSE "nan"]

ConvolveSame(a, v) ==
    LET h == (Len(v) - 1) \div 2
    IN [m \in 1..Len(a) |-> Sample(a, m, m - h, m + (Len(v) - 1 - h))]

\* butter(3, Wn) for a digital filter needs 0 < Wn < 1; Wn = 1/(cutoff/2)
ButterOrder == 3
ButterOk(cutoff) == cutoff > 2
\* filtfilt pads by padlen = 3*max(len(a), len(b)) = 3*(order+1) samples
\* and needs an input longer than that
FiltfiltPadlen == 3 * (ButterOrder + 1)
Filtfilt(a) ==
    IF Len(a) <= FiltfiltPadlen THEN Raised("ValueError")
    ELSE Returned([m \in 1..Len(a) |-> Sample(a, m, 1, Len(a))])

\* ------------------------------------------------------------------------
\* filter_ts(ts, cutoff, filter_type, padding_type, detrend)
\* ------------------------------------------------------------------------
CeilHalf(n) == (n + 1) \div 2
LanczosWeights(cutoff) == LowPassWeights(cutoff * 2 + 1, FDiv(One, Int2F(cutoff)))
\* a pad taken from the cutoff, not from the kernel
NPadOfCutoff(cutoff) == CeilHalf(cutoff)
NPad(cutoff) == CeilHalf(Len(LanczosWeights(cutoff).val))

\* filter_ts without its final else: a kind that is not "butter" is filtered
\* as "lanczos"
FilterPaddedAnyKind(ts_mirr, cutoff, filter_type) ==
    LET n_pad == NPad(cutoff)
        trim(s) == SubSeqF(s, n_pad + 1, Len(s) - n_pad)
    IN IF filter_type = "butter"
       THEN IF ~ButterOk(cutoff) THEN Raised("ValueError")
            ELSE LET y == Filtfilt(ts_mirr)
                 IN IF y.err # "none" THEN y ELSE Returned(trim(y.val))
       ELSE Returned(trim(ConvolveSame(ts_mirr, LanczosWeights(cutoff).val)))

\* the part of filter_ts after the padding
FilterPadded(ts_mirr, cutoff, filter_type) ==
    LET n_pad == NPad(cutoff)
        trim(s) == SubSeqF(s, n_pad + 1, Len(s) - n_pad)
    IN IF filter_type = "lanczos"
       THEN Returned(trim(ConvolveSame(ts_mirr, LanczosWeights(cutoff).val)))
       ELSE IF filter_type = "butter"
       THEN IF ~ButterOk(cutoff) THEN Raised("ValueError")
            ELSE LET y == Filtfilt(ts_mirr)
                 IN IF y.err # "none" THEN y ELSE Returned(trim(y.val))
       ELSE Raised("ValueError")

FilterTsSet(ts, cutoff, filter_type, padding_type, detrend) ==
    { IF p.err # "none" THEN p ELSE FilterPadded(p.val, cutoff, filter_type) :
        p \in FilterPaddingSet(ts, NPad(cutoff), padding_type, detrend) }
\* ------------------------------------------------------------------------
\* State
\* ------------------------------------------------------------------------
VARIABLES
    \* one call of lfca(x, cutoff, truncation, weights)
    pc,            \* position in lfca
    err,           \* exception class the call ended in, or "none"
    x,             \* the caller's data: [ndim, v], v a T x N matrix
    cutoff,
    truncation,
    weights,       \* the caller's weights: [form, v]; form "row": 1 x N, "vec": 1-D
    scale,         \* [form, v]; form "col": N x 1, "vec": 1-D
    xs,            \* centred, weighted data, T x N
    eofL,          \* eigenvalues of the EOF solver, descending
    eofE,          \* its EOFs, one per row
    pcs,           \* pcs[k]: the k-th principal component series (a column)
    pcs_filt,      \* pcs_filt[k]: the k-th filtered series, columns 1..i
    i,             \* filter loop index (columns done)
    eigh_out,      \* what np.linalg.eigh returned: [w, v], kept as it was
    eig_lowfreq,
    eigv_lowfreq,
    eig_argsort,
    uvec,          \* N x K
    lfcs,          \* T x K
    lfps,          \* N x K, in the end K x N
    j,             \* sign loop index (columns done)
    ret,           \* what lfca returned: <<>> or [lfcs, lfps]
    \* one call of filter_ts(ts, cutoff, filter_type, padding_type, detrend)
    f_pc, f_err, f_ts, f_cutoff, f_filter_type, f_padding_type, f_detrend,
    f_weights, f_n_pad, f_mirr, f_out,
    \* one call of low_pass_weights(window, cutoff)
    lw_pc, lw_err, lw_window, lw_cutoff, lw_out,
    \* one turn of the notebook's evaluation loop
    e_pc,          \* position in the loop body
    e_x_all,       \* the stacked anomalies, T x nfeatures
    e_area,        \* area_weights as built: one weight per spatial column
    e_icol_ret,    \* columns kept, in ascending order
    e_icol_disc,   \* columns left out, in ascending order
    e_lfps_aug,    \* the patterns with the left-out columns put back
    \* a second invocation of lfca, its locals kept while the first one runs:
    \* <<>> when there is none
    parked,
    \* what the numerical libraries returned so far, per function a set of
    \* <<argument, outcome>>: a library function called again with the same
    \* argument returns the same outcome
    lib

lfcaVars == <<pc, err, x, cutoff, truncation, weights, scale, xs, eofL, eofE, pcs,
              pcs_filt, i, eigh_out, eig_lowfreq, eigv_lowfreq, eig_argsort, uvec,
              lfcs, lfps, j, ret>>
filterVars == <<f_pc, f_err, f_ts, f_cutoff, f_filter_type, f_padding_type,
                f_detrend, f_weights, f_n_pad, f_mirr, f_out>>
lwVars == <<lw_pc, lw_err, lw_window, lw_cutoff, lw_out>>
evalVars == <<e_pc, e_x_all, e_area, e_icol_ret, e_icol_disc, e_lfps_aug>>
vars == <<lfcaVars, filterVars, lwVars, evalVars, parked, lib>>

\* ------------------------------------------------------------------------
\* numpy shapes and broadcasting
\* ------------------------------------------------------------------------
\* np.transpose(weights): a 1 x N row becomes an N x 1 column, a 1-D array
\* is unchanged
TransposeForm(form) == IF form = "row" THEN "col" ELSE IF form = "col" THEN "row" ELSE form

\* m / s for an R x C matrix m and s = [form, v]: the result, or a
\* ValueError when the shapes do not broadcast
DivBroadcast(m, s) ==
    LET R == Rows(m)
        C == Cols(m)
        n == Len(s.v)
    IN IF s.form = "col"
       THEN \* (R, C) / (n, 1)
            IF n = R THEN Returned([r \in 1..R |-> [c \in 1..C |-> FDiv(m[r][c], s.v[r])]])
            ELSE IF n = 1 THEN Returned([r \in 1..R |-> [c \in 1..C |-> FDiv(m[r][c], s.v[1])]])
            ELSE IF R = 1 THEN Returned([r \in 1..n |-> [c \in 1..C |-> FDiv(m[1][c], s.v[r])]])
            ELSE Raised("ValueError")
       ELSE \* (R, C) / (n,) and (R, C) / (1, n): aligned with the columns
            IF n = C THEN Returned([r \in 1..R |-> [c \in 1..C |-> FDiv(m[r][c], s.v[c])]])
            ELSE IF n = 1 THEN Returned([r \in 1..R |-> [c \in 1..C |-> FDiv(m[r][c], s.v[1])]])
            ELSE IF C = 1 THEN Returned([r \in 1..R |-> [c \in 1..n |-> FDiv(m[r][1], s.v[c])]])
            ELSE Raised("ValueError")

\* ------------------------------------------------------------------------
\* lfca, lines 232-240: the dimension check, the scale vector, centring
\* and weighting
\* ------------------------------------------------------------------------
ScaleFromWeights(w) ==
    LET total == FSum(w.v, Len(w.v))
    IN [form |-> TransposeForm(w.form),
        v |-> [c \in 1..Len(w.v) |-> FSqrt(FDiv(w.v[c], total))]]

ColumnMean(m, c) == FDiv(FSum(Col(m, c), Rows(m)), Int2F(Rows(m)))
Centre(m) == [r \in 1..Rows(m) |-> [c \in 1..Cols(m) |-> FSub(m[r][c], ColumnMean(m, c))]]
\* x * scale.T: scale.T is 1 x N or 1-D, aligned with the columns of x
Weighted(m, s) == [r \in 1..Rows(m) |-> [c \in 1..Cols(m) |-> FMul(m[r][c], s.v[c])]]
\* ------------------------------------------------------------------------
\* lfca, lines 244-249: Eof(xs.values, center=False, ddof=1) and
\* pcs(npcs=truncation, pcscaling=1)
\* ------------------------------------------------------------------------
AllNaN(m) == \A r \in 1..Rows(m) : \A c \in 1..Cols(m) : IsNaN(m[r][c])
ColumnIsZero(m, c) == \A r \in 1..Rows(m) : IsZero(m[r][c])
AllZero(m) == \A c \in 1..Cols(m) : ColumnIsZero(m, c)

\* The solver's SVD cannot be computed exactly.  Its results are taken from
\* a family of exact ones: EOF k is the unit vector of column
\* ((k-1+shift) mod N)+1, shift 0 or 1, the first p eigenvalues are positive
\* (1) and the others are 0.  An EOF with a positive eigenvalue is supported on columns
\* where xs is not zero, p = 0 exactly when xs is zero, and p < T: xs is
\* centred (line 239), so its rank is below the number of its rows.
UnitRow(n, c) == [q \in 1..n |-> IF q = c THEN One ELSE Zero]
ShiftRows(m, n, shift) == [k \in 1..m |-> UnitRow(n, ((k - 1 + shift) % n) + 1)]
EofPosition(n, k, shift) == ((k - 1 + shift) % n) + 1

EofResults(m) ==
    LET T == Rows(m)
        N == Cols(m)
        M == Min(T, N)
    IN { [L |-> [k \in 1..M |-> IF k <= p THEN One ELSE Zero],
          E |-> ShiftRows(M, N, shift)] :
            <<p, shift>> \in
              { q \in (0..Min(M, T - 1)) \X (0..Min(1, N - 1)) :
                  /\ (q[1] = 0) <=> AllZero(m)
                  /\ \A k \in 1..q[1] : ~ColumnIsZero(m, EofPosition(N, k, q[2])) } }

\* a solver that does not look for missing data
EofSetNoMissingCheck(m) == {Returned(r) : r \in EofResults(m)}

\* Eof refuses data that is missing (NaN) everywhere
EofSet(m) ==
    IF AllNaN(m) THEN {Raised("ValueError")}
    ELSE {Returned(r) : r \in EofResults(m)}

\* pcs(npcs, pcscaling=1): the first npcs columns of P = xs E^T (as many as
\* there are), each divided by the square root of its eigenvalue
Pcs(m, eof, npcs) ==
    [k \in 1..Min(npcs, Len(eof.L)) |->
        [t \in 1..Rows(m) |->
            FDiv(IF IsZero(eof.L[k]) THEN Zero ELSE Dot(m[t], eof.E[k]),
                 FSqrt(eof.L[k]))]]

\* eofs(neofs, eofscaling=1): the EOFs; eofscaling=2: each times the square
\* root of its eigenvalue
Eofs1(eof, neofs) == [k \in 1..Min(neofs, Len(eof.L)) |-> eof.E[k]]
Eofs2(eof, neofs) ==
    [k \in 1..Min(neofs, Len(eof.L)) |->
        [c \in 1..Len(eof.E[k]) |-> FMul(eof.E[k][c], FSqrt(eof.L[k]))]]

\* ------------------------------------------------------------------------
\* lfca, lines 257-258: np.cov(pcs_filt, rowvar=False) and np.linalg.eigh
\* ------------------------------------------------------------------------
\* The covariance of the filtered series is a sum of products of filtered
\* samples: [ndim, n, cls].  np.cov squeezes its result: one series gives a
\* 0-dimensional array.
SeriesFinite(col) == \A t \in 1..Len(col) : col[t].cls = "fin"
Cov(cols) ==
    [ndim |-> IF Len(cols) = 1 THEN 0 ELSE 2,
     n |-> Len(cols),
     cls |-> IF \A k \in 1..Len(cols) : SeriesFinite(cols[k]) THEN "fin" ELSE "nan"]

\* eigenvalue sequences in ascending order, as eigh returns them
RECURSIVE AscSeqs(_, _)
AscSeqs(n, lo) ==
    IF n = 0 THEN {<<>>}
    ELSE UNION { { <<Int2F(v)>> \o rest : rest \in AscSeqs(n - 1, v) } : v \in lo..MaxEig }

\* orthonormal eigenvector matrices: column c is sign(c) times the unit
\* vector of row ((c-1+shift) mod n)+1
SignPatterns == {"plus", "minus", "alternate"}
SignOf(pat, c) == IF pat = "plus" THEN 1 ELSE IF pat = "minus" THEN -1
                  ELSE IF c % 2 = 1 THEN 1 ELSE -1
SignedShift(n, shift, pat) ==
    [r \in 1..n |-> [c \in 1..n |->
        IF r = ((c - 1 + shift) % n) + 1 THEN Int2F(SignOf(pat, c)) ELSE Zero]]
EigvSet(n) == { SignedShift(n, shift, pat) : shift \in 0..(n - 1), pat \in SignPatterns }

NaNVector(n) == [k \in 1..n |-> NaN]
NaNMatrix(n) == [r \in 1..n |-> NaNVector(n)]

\* eigh refuses a 0-dimensional array (LinAlgError).  Handed NaN, LAPACK
\* either fails to converge (LinAlgError) or returns NaN throughout,
\* depending on the build and the size.
EighSet(c) ==
    IF c.ndim # 2 THEN {Raised("LinAlgError")}
    ELSE IF c.cls = "nan"
    THEN {Raised("LinAlgError"), Returned([w |-> NaNVector(c.n), v |-> NaNMatrix(c.n)])}
    ELSE { Returned([w |-> w, v |-> v]) : w \in AscSeqs(c.n, 1), v \in EigvSet(c.n) }

\* ------------------------------------------------------------------------
\* lfca, lines 259-261: the descending sort
\* ------------------------------------------------------------------------
Perms(n) == { p \in [1..n -> 1..n] : \A a, b \in 1..n : a # b => p[a] # p[b] }

\* np.argsort(w): a permutation that puts w in ascending order, NaN last.
\* The default sort is not stable: equal values come in any order.
SortsAscending(w, p) ==
    \A a \in 1..(Len(w) - 1) :
        \/ IsNaN(w[p[a + 1]])
        \/ (~IsNaN(w[p[a]]) /\ FLe(w[p[a]], w[p[a + 1]]))
ArgsortSet(w) == { p \in Perms(Len(w)) : SortsAscending(w, p) }

\* the eigenvalues left in the order eigh gave them
TakeUnsorted(w, idx) == w
Take(w, idx) == [a \in 1..Len(idx) |-> w[idx[a]]]
\* the eigenvector columns left in the order eigh gave them
TakeColumnsUnsorted(m, idx) == m
TakeColumns(m, idx) == [r \in 1..Rows(m) |-> [a \in 1..Len(idx) |-> m[r][idx[a]]]]
\* ------------------------------------------------------------------------
\* Inputs of the calls
\* ------------------------------------------------------------------------
ZerosMatrix(T, N) == [t \in 1..T |-> [c \in 1..N |-> Zero]]
RampMatrix(T, N) == [t \in 1..T |-> [c \in 1..N |-> Int2F(t * c)]]
\* data sets: all zeros, a trend of a different size in each column, and an
\* array that is not 2-dimensional
XSet(T, N) == { [ndim |-> 2, v |-> ZerosMatrix(T, N)],
                [ndim |-> 2, v |-> RampMatrix(T, N)],
                [ndim |-> 1, v |-> ZerosMatrix(T, N)] }

\* weights: all zero, uniform, one column masked out, and growing (squares,
\* so that the scale vector is exact)
WeightVectors(N) ==
    { [c \in 1..N |-> Zero],
      [c \in 1..N |-> One],
      [c \in 1..N |-> IF c = 1 /\ N > 1 THEN Zero ELSE One],
      [c \in 1..N |-> Int2F(c * c)] }
WeightSet(N) == { [form |-> f, v |-> w] : f \in {"row", "vec"}, w \in WeightVectors(N) }

\* the keyword arguments lfca passes on to filter_ts: none (the notebook's
\* call), so filter_ts runs with its defaults
KwFilterType == "lanczos"
KwPaddingType == "mirror"
KwDetrend == TRUE

None == <<>>

LfcaIdle ==
    /\ pc = "idle" /\ err = "none" /\ x = None /\ cutoff = 0 /\ truncation = 0
    /\ weights = None /\ scale = None /\ xs = None /\ eofL = None /\ eofE = None
    /\ pcs = None /\ pcs_filt = None /\ i = 0 /\ eigh_out = None
    /\ eig_lowfreq = None
    /\ eigv_lowfreq = None /\ eig_argsort = None /\ uvec = None /\ lfcs = None
    /\ lfps = None /\ j = 0 /\ ret = None
FilterIdle ==
    /\ f_pc = "idle" /\ f_err = "none" /\ f_ts = None /\ f_cutoff = 0
    /\ f_filter_type = "" /\ f_padding_type = "" /\ f_detrend = FALSE
    /\ f_weights = None /\ f_n_pad = 0 /\ f_mirr = None /\ f_out = None
LwIdle ==
    /\ lw_pc = "idle" /\ lw_err = "none" /\ lw_window = 0 /\ lw_cutoff = Zero
    /\ lw_out = None
EvalIdle ==
    /\ e_pc = "idle" /\ e_x_all = None /\ e_area = None /\ e_icol_ret = None
    /\ e_icol_disc = None /\ e_lfps_aug = None

\* ------------------------------------------------------------------------
\* lfca(x, cutoff, truncation, weights)
\* ------------------------------------------------------------------------
\* A library function is a function: called with an argument it was called
\* with before it returns what it returned then; otherwise it returns one of
\* the outcomes the build can produce.
\* a solver that draws on a random state: any outcome at every call
AnyOutcome(memo, arg, outs) == outs

LibraryOutcomes(memo, arg, outs) ==
    IF \E e \in memo : e[1] = arg
    THEN { e[2] : e \in { d \in memo : d[1] = arg } }
    ELSE outs
NoCalls == [eof |-> {}, filter_ts |-> {}, eigh |-> {}, argsort |-> {}]

LfcaCall ==
    /\ pc = "start" /\ err = "none"
    /\ \E T \in 2..MaxT, N \in 1..MaxN :
          /\ x \in XSet(T, N)
          /\ weights \in WeightSet(N)
    /\ cutoff \in 1..MaxCutoff
    /\ truncation \in 1..MaxK
    /\ scale = None /\ xs = None /\ eofL = None /\ eofE = None
    /\ pcs = None /\ pcs_filt = None /\ i = 0 /\ eigh_out = None
    /\ eig_lowfreq = None
    /\ eigv_lowfreq = None /\ eig_argsort = None /\ uvec = None /\ lfcs = None
    /\ lfps = None /\ j = 0 /\ ret = None

Fail(e) == pc' = "error" /\ err' = e

\* the centring written back into the caller's array (x -= mean)
PrepareInPlace ==
    /\ pc = "start"
    /\ IF x.ndim # 2
       THEN /\ Fail("ValueError")
            /\ UNCHANGED <<scale, xs, x>>
       ELSE /\ scale' = ScaleFromWeights(weights)
            /\ x' = [x EXCEPT !.v = Centre(x.v)]
            /\ xs' = Weighted(x'.v, scale')
            /\ pc' = "prepared"
            /\ err' = err
    /\ UNCHANGED <<cutoff, truncation, weights, eofL, eofE, pcs, pcs_filt, i,
                   eig_lowfreq, eigv_lowfreq, eigh_out, eig_argsort, uvec, lfcs, lfps, j, ret>>
    /\ UNCHANGED <<filterVars, lwVars, evalVars, parked, lib>>

\* lines 232-240
Prepare ==
    /\ pc = "start"
    /\ IF x.ndim # 2
       THEN /\ Fail("ValueError")
            /\ UNCHANGED <<scale, xs>>
       ELSE /\ scale' = ScaleFromWeights(weights)
            /\ xs' = Weighted(Centre(x.v), scale')
            /\ pc' = "prepared"
            /\ err' = err
    /\ UNCHANGED <<x, cutoff, truncation, weights, eofL, eofE, pcs, pcs_filt, i,
                   eig_lowfreq, eigv_lowfreq, eigh_out, eig_argsort, uvec, lfcs, lfps, j, ret>>
    /\ UNCHANGED <<filterVars, lwVars, evalVars, parked, lib>>

\* lines 244-249
ComputeEof ==
    /\ pc = "prepared"
    /\ \E r \in LibraryOutcomes(lib.eof, xs, EofSet(xs)) :
          /\ lib' = [lib EXCEPT !.eof = @ \cup {<<xs, r>>}]
          /\ IF r.err # "none"
             THEN /\ Fail(r.err)
                  /\ UNCHANGED <<eofL, eofE, pcs, pcs_filt>>
             ELSE /\ eofL' = r.val.L
                  /\ eofE' = r.val.E
                  /\ pcs' = Pcs(xs, r.val, truncation)
                  /\ pcs_filt' = <<>>
                  /\ pc' = "filter"
                  /\ err' = err
    /\ UNCHANGED <<x, cutoff, truncation, weights, scale, xs, i, eig_lowfreq,
                   eigv_lowfreq, eigh_out, eig_argsort, uvec, lfcs, lfps, j, ret>>
    /\ UNCHANGED <<filterVars, lwVars, evalVars, parked>>

\* lines 250-253, one turn of the loop
FilterPC ==
    /\ pc = "filter"
    /\ i < truncation
    /\ IF i + 1 > Len(pcs)
       THEN \* pcs[:, i] beyond the columns there are
            /\ Fail("IndexError")
            /\ UNCHANGED <<pcs_filt, i, lib>>
       ELSE \E r \in LibraryOutcomes(lib.filter_ts, <<pcs[i + 1], cutoff>>,
                      FilterTsSet(pcs[i + 1], cutoff, KwFilterType, KwPaddingType, KwDetrend)) :
              /\ lib' = [lib EXCEPT !.filter_ts = @ \cup {<<<<pcs[i + 1], cutoff>>, r>>}]
              /\ IF r.err # "none"
                 THEN /\ Fail(r.err)
                      /\ UNCHANGED <<pcs_filt, i>>
                 ELSE /\ pcs_filt' = Append(pcs_filt, r.val)
                      /\ i' = i + 1
                      /\ UNCHANGED <<pc, err>>
    /\ UNCHANGED <<x, cutoff, truncation, weights, scale, xs, eofL, eofE, pcs,
                   eig_lowfreq, eigv_lowfreq, eigh_out, eig_argsort, uvec, lfcs, lfps, j, ret>>
    /\ UNCHANGED <<filterVars, lwVars, evalVars, parked>>

\* lines 257-258
LowFreqEig ==
    /\ pc = "filter"
    /\ i = truncation
    /\ \E r \in LibraryOutcomes(lib.eigh, Cov(pcs_filt), EighSet(Cov(pcs_filt))) :
          /\ lib' = [lib EXCEPT !.eigh = @ \cup {<<Cov(pcs_filt), r>>}]
          /\ IF r.err # "none"
             THEN /\ Fail(r.err)
                  /\ UNCHANGED <<eigh_out, eig_lowfreq, eigv_lowfreq>>
             ELSE /\ eigh_out' = r.val
                  /\ eig_lowfreq' = r.val.w
                  /\ eigv_lowfreq' = r.val.v
                  /\ pc' = "eigh"
                  /\ err' = err
    /\ UNCHANGED <<x, cutoff, truncation, weights, scale, xs, eofL, eofE, pcs,
                   pcs_filt, i, eig_argsort, uvec, lfcs, lfps, j, ret>>
    /\ UNCHANGED <<filterVars, lwVars, evalVars, parked>>

\* lines 259-261
ArgsortDescending(w) == { Reverse(p) : p \in ArgsortSet(w) }

SortEig ==
    /\ pc = "eigh"
    /\ \E idx \in LibraryOutcomes(lib.argsort, eig_lowfreq, ArgsortDescending(eig_lowfreq)) :
          /\ lib' = [lib EXCEPT !.argsort = @ \cup {<<eig_lowfreq, idx>>}]
          /\ eig_argsort' = idx
          /\ eig_lowfreq' = Take(eig_lowfreq, idx)
          /\ eigv_lowfreq' = TakeColumns(eigv_lowfreq, idx)
    /\ pc' = "sorted"
    /\ UNCHANGED <<err, x, cutoff, truncation, weights, scale, xs, eofL, eofE, pcs,
                   pcs_filt, i, eigh_out, uvec, lfcs, lfps, j, ret>>
    /\ UNCHANGED <<filterVars, lwVars, evalVars, parked>>

\* lines 263-266
Project ==
    /\ pc = "sorted"
    /\ LET eof == [L |-> eofL, E |-> eofE]
       IN /\ uvec' = MatMul(Transpose(Eofs1(eof, truncation)), eigv_lowfreq)
          /\ lfcs' = MatMul(xs, uvec')
          /\ lfps' = MatMul(Transpose(Eofs2(eof, truncation)), eigv_lowfreq)
    /\ j' = 0
    /\ pc' = "sign"
    /\ UNCHANGED <<err, x, cutoff, truncation, weights, scale, xs, eofL, eofE, pcs,
                   pcs_filt, i, eig_lowfreq, eigv_lowfreq, eigh_out, eig_argsort, ret>>
    /\ UNCHANGED <<filterVars, lwVars, evalVars, parked, lib>>

\* a sign step that flips the pattern and leaves the component series
SignStepPatternOnly ==
    /\ pc = "sign"
    /\ j < Cols(lfps)
    /\ IF FNegative(Dot(Col(lfps, j + 1), scale.v))
       THEN lfps' = [r \in 1..Rows(lfps) |-> [q \in 1..Cols(lfps) |->
                        IF q = j + 1 THEN FNeg(lfps[r][q]) ELSE lfps[r][q]]]
       ELSE lfps' = lfps
    /\ lfcs' = lfcs
    /\ j' = j + 1
    /\ UNCHANGED <<pc, err, x, cutoff, truncation, weights, scale, xs, eofL, eofE,
                   pcs, pcs_filt, i, eig_lowfreq, eigv_lowfreq, eigh_out, eig_argsort, uvec, ret>>
    /\ UNCHANGED <<filterVars, lwVars, evalVars, parked, lib>>

\* lines 270-273, one turn of the loop
NegateColumn(m, c) ==
    [r \in 1..Rows(m) |-> [q \in 1..Cols(m) |-> IF q = c THEN FNeg(m[r][q]) ELSE m[r][q]]]
FlipsSign(m, c, s) == FNegative(Dot(Col(m, c), s.v))

SignStep ==
    /\ pc = "sign"
    /\ j < Cols(lfps)
    /\ IF FlipsSign(lfps, j + 1, scale)
       THEN /\ lfps' = NegateColumn(lfps, j + 1)
            /\ lfcs' = NegateColumn(lfcs, j + 1)
       ELSE UNCHANGED <<lfps, lfcs>>
    /\ j' = j + 1
    /\ UNCHANGED <<pc, err, x, cutoff, truncation, weights, scale, xs, eofL, eofE,
                   pcs, pcs_filt, i, eig_lowfreq, eigv_lowfreq, eigh_out, eig_argsort, uvec, ret>>
    /\ UNCHANGED <<filterVars, lwVars, evalVars, parked, lib>>

\* lines 274-277
Rescale(m, s) == DivBroadcast(m, s)

RescaleReturn ==
    /\ pc = "sign"
    /\ j = Cols(lfps)
    /\ LET r == Rescale(lfps, scale)
       IN IF r.err # "none"
          THEN /\ Fail(r.err)
               /\ UNCHANGED <<lfps, ret>>
          ELSE /\ lfps' = Transpose(r.val)
               /\ ret' = [lfcs |-> lfcs, lfps |-> lfps']
               /\ pc' = "done"
               /\ err' = err
    /\ UNCHANGED <<x, cutoff, truncation, weights, scale, xs, eofL, eofE, pcs,
                   pcs_filt, i, eig_lowfreq, eigv_lowfreq, eigh_out, eig_argsort, uvec, lfcs, j>>
    /\ UNCHANGED <<filterVars, lwVars, evalVars, parked, lib>>

\* ------------------------------------------------------------------------
\* filter_ts called on its own
\* ------------------------------------------------------------------------
\* series: a curve (squares), an oscillation, and one that is NaN throughout
SeriesSet(L) == { [t \in 1..L |-> Int2F((t - 1) * (t - 1))],
                  [t \in 1..L |-> Int2F(t % 2)],
                  [t \in 1..L |-> NaN] }
FilterKinds == {"lanczos", "butter", "boxcar"}
PaddingKinds == {"mirror", "periodic", "constant"}

FilterTsCall ==
    /\ f_pc = "start" /\ f_err = "none"
    /\ \E L \in 0..MaxLen : f_ts \in SeriesSet(L)
    /\ f_cutoff \in 1..MaxFCutoff
    /\ f_filter_type \in FilterKinds
    /\ f_padding_type \in PaddingKinds
    /\ f_detrend \in BOOLEAN
    /\ f_weights = None /\ f_n_pad = 0 /\ f_mirr = None /\ f_out = None

FFail(e) == f_pc' = "error" /\ f_err' = e

\* lines 211-212
FtWeights ==
    /\ f_pc = "start"
    /\ f_weights' = LanczosWeights(f_cutoff).val
    /\ f_n_pad' = NPad(f_cutoff)
    /\ f_pc' = "weights"
    /\ UNCHANGED <<f_err, f_ts, f_cutoff, f_filter_type, f_padding_type, f_detrend,
                   f_mirr, f_out>>
    /\ UNCHANGED <<lfcaVars, lwVars, evalVars, parked, lib>>

\* line 215
FtPad ==
    /\ f_pc = "weights"
    /\ \E r \in FilterPaddingSet(f_ts, f_n_pad, f_padding_type, f_detrend) :
          IF r.err # "none"
          THEN /\ FFail(r.err)
               /\ UNCHANGED f_mirr
          ELSE /\ f_mirr' = r.val
               /\ f_pc' = "padded"
               /\ f_err' = f_err
    /\ UNCHANGED <<f_ts, f_cutoff, f_filter_type, f_padding_type, f_detrend,
                   f_weights, f_n_pad, f_out>>
    /\ UNCHANGED <<lfcaVars, lwVars, evalVars, parked, lib>>

\* lines 218-228
FtFilter ==
    /\ f_pc = "padded"
    /\ LET r == FilterPadded(f_mirr, f_cutoff, f_filter_type)
       IN IF r.err # "none"
          THEN /\ FFail(r.err)
               /\ UNCHANGED f_out
          ELSE /\ f_out' = r.val
               /\ f_pc' = "done"
               /\ f_err' = f_err
    /\ UNCHANGED <<f_ts, f_cutoff, f_filter_type, f_padding_type, f_detrend,
                   f_weights, f_n_pad, f_mirr>>
    /\ UNCHANGED <<lfcaVars, lwVars, evalVars, parked, lib>>

\* ------------------------------------------------------------------------
\* low_pass_weights called on its own
\* ------------------------------------------------------------------------
\* cutoff frequencies n/8, from -1/4 to 1/2
CutoffSet == { Norm(n, 8, 1) : n \in -2..4 }

LowPassWeightsCall ==
    /\ lw_pc = "start" /\ lw_err = "none"
    /\ lw_window \in 1..MaxWindow
    /\ lw_cutoff \in CutoffSet
    /\ lw_out = None

\* lines 175-185
LwRun ==
    /\ lw_pc = "start"
    /\ lw_out' = LowPassWeights(lw_window, lw_cutoff).val
    /\ lw_pc' = "done"
    /\ UNCHANGED <<lw_err, lw_window, lw_cutoff>>
    /\ UNCHANGED <<lfcaVars, filterVars, evalVars, parked, lib>>

\* ------------------------------------------------------------------------
\* One turn of the evaluation loop of the notebook (cell at lines 531-596)
\* ------------------------------------------------------------------------
\* np.where(area_weights != 0)[0] and np.where(area_weights == 0)[0]: the
\* indices, ascending, of the first n weights that are not, or are, zero
RECURSIVE WhereZero(_, _, _)
WhereZero(w, n, zero) ==
    IF n = 0 THEN <<>>
    ELSE LET rest == WhereZero(w, n - 1, zero)
         IN IF IsZero(w[n]) = zero THEN Append(rest, n) ELSE rest

\* m[:, idx] and w[idx]
SelectColumns(m, idx) == [t \in 1..Len(m) |-> [k \in 1..Len(idx) |-> m[t][idx[k]]]]
SelectWeights(w, idx) == [k \in 1..Len(idx) |-> w[idx[k]]]

\* position of column c in idx, 0 when it is not there
PositionIn(idx, c) ==
    IF \E k \in 1..Len(idx) : idx[k] = c
    THEN CHOOSE k \in 1..Len(idx) : idx[k] = c
    ELSE 0

\* the patterns written to the first columns, not to the retained ones
AugmentAtFront(p, idx, nins) ==
    [a \in 1..Rows(p) |-> [c \in 1..(Cols(p) + nins) |->
        IF c <= Len(idx) THEN p[a][c] ELSE NaN]]

\* lines 582-586: an array of NaN with lfps.shape[1] + nins columns, the
\* columns idx of which take the columns of lfps
Augment(p, idx, nins) ==
    [a \in 1..Rows(p) |-> [c \in 1..(Cols(p) + nins) |->
        IF PositionIn(idx, c) # 0 THEN p[a][PositionIn(idx, c)] ELSE NaN]]

\* the area weights: the square of the column number (cos(lat), made exact)
\* times a mask of 0 and 1 that keeps one column at least
AreaSet(n) ==
    { [c \in 1..n |-> IF mask[c] = 1 THEN Int2F(c * c) ELSE Zero] :
        mask \in { m \in [1..n -> {0, 1}] : \E c \in 1..n : m[c] = 1 } }

EvalLoopTurn ==
    /\ e_pc = "start"
    /\ \E n \in 1..MaxN :
          /\ e_x_all = RampMatrix(MaxT, n)
          /\ e_area \in AreaSet(n)
    /\ e_icol_ret = None /\ e_icol_disc = None /\ e_lfps_aug = None

\* lines 572-579: the columns kept and left out, the call of lfca
EvalSelect ==
    /\ e_pc = "start"
    /\ e_icol_ret' = WhereZero(e_area, Len(e_area), FALSE)
    /\ e_icol_disc' = WhereZero(e_area, Len(e_area), TRUE)
    /\ x' = [ndim |-> 2, v |-> SelectColumns(e_x_all, e_icol_ret')]
    /\ weights' = [form |-> "row", v |-> SelectWeights(e_area, e_icol_ret')]
    /\ cutoff' = MaxCutoff
    /\ truncation' = MaxK
    /\ pc' = "start"
    /\ e_pc' = "called"
    /\ UNCHANGED <<err, scale, xs, eofL, eofE, pcs, pcs_filt, i, eigh_out,
                   eig_lowfreq, eigv_lowfreq, eig_argsort, uvec, lfcs, lfps, j, ret>>
    /\ UNCHANGED <<e_x_all, e_area, e_lfps_aug>>
    /\ UNCHANGED <<filterVars, lwVars, parked, lib>>

\* lines 582-586: the left-out columns put back as NaN
EvalAugment ==
    /\ e_pc = "called"
    /\ pc = "done"
    /\ e_lfps_aug' = Augment(ret.lfps, e_icol_ret, Len(e_icol_disc))
    /\ e_pc' = "done"
    /\ UNCHANGED <<e_x_all, e_area, e_icol_ret, e_icol_disc>>
    /\ UNCHANGED <<lfcaVars, filterVars, lwVars, parked, lib>>

\* ------------------------------------------------------------------------
\* The program: one call of lfca, of filter_ts or of low_pass_weights, or
\* one turn of the evaluation loop
\* ------------------------------------------------------------------------
Init ==
    /\ \/ LfcaCall /\ FilterIdle /\ LwIdle /\ EvalIdle
       \/ LfcaIdle /\ FilterTsCall /\ LwIdle /\ EvalIdle
       \/ LfcaIdle /\ FilterIdle /\ LowPassWeightsCall /\ EvalIdle
       \/ LfcaIdle /\ FilterIdle /\ LwIdle /\ EvalLoopTurn
    /\ parked = None
    /\ lib = NoCalls

Next ==
    \/ Prepare
    \/ ComputeEof
    \/ FilterPC
    \/ LowFreqEig
    \/ SortEig
    \/ Project
    \/ SignStep
    \/ RescaleReturn
    \/ FtWeights
    \/ FtPad
    \/ FtFilter
    \/ LwRun
    \/ EvalSelect
    \/ EvalAugment

Spec == Init /\ [][Next]_vars

\* ------------------------------------------------------------------------
\* Two invocations of lfca, their steps interleaved
\* ------------------------------------------------------------------------
\* Every name lfca assigns is a local of the invocation (lines 231-277 hold
\* no global and no nonlocal statement, no default argument that is mutable
\* and no attribute of a shared object), so an invocation is its frame.
Frame ==
    [pc |-> pc, err |-> err, x |-> x, cutoff |-> cutoff, truncation |-> truncation,
     weights |-> weights, scale |-> scale, xs |-> xs, eofL |-> eofL, eofE |-> eofE,
     pcs |-> pcs, pcs_filt |-> pcs_filt, i |-> i, eigh_out |-> eigh_out,
     eig_lowfreq |-> eig_lowfreq, eigv_lowfreq |-> eigv_lowfreq,
     eig_argsort |-> eig_argsort, uvec |-> uvec, lfcs |-> lfcs, lfps |-> lfps,
     j |-> j, ret |-> ret]

StartFrame(call) ==
    [pc |-> "start", err |-> "none", x |-> call.x, cutoff |-> call.cutoff,
     truncation |-> call.truncation, weights |-> call.weights, scale |-> None,
     xs |-> None, eofL |-> None, eofE |-> None, pcs |-> None, pcs_filt |-> None,
     i |-> 0, eigh_out |-> None, eig_lowfreq |-> None, eigv_lowfreq |-> None,
     eig_argsort |-> None, uvec |-> None, lfcs |-> None, lfps |-> None,
     j |-> 0, ret |-> None]

Resume(f) ==
    /\ pc' = f.pc /\ err' = f.err /\ x' = f.x /\ cutoff' = f.cutoff
    /\ truncation' = f.truncation /\ weights' = f.weights
    /\ xs' = f.xs /\ eofL' = f.eofL /\ eofE' = f.eofE /\ pcs' = f.pcs
    /\ pcs_filt' = f.pcs_filt /\ i' = f.i /\ eigh_out' = f.eigh_out
    /\ eig_lowfreq' = f.eig_lowfreq /\ eigv_lowfreq' = f.eigv_lowfreq
    /\ eig_argsort' = f.eig_argsort /\ uvec' = f.uvec /\ lfcs' = f.lfcs
    /\ lfps' = f.lfps /\ j' = f.j /\ ret' = f.ret

\* scale kept in a module-level name the two invocations share
SwitchSharingScale ==
    /\ parked # None
    /\ parked.pc \notin {"done", "error"}
    /\ parked' = Frame
    /\ Resume(parked)
    /\ scale' = scale
    /\ UNCHANGED <<filterVars, lwVars, evalVars, lib>>

\* the other invocation takes the next step
Switch ==
    /\ parked # None
    /\ parked.pc \notin {"done", "error"}
    /\ parked' = Frame
    /\ Resume(parked)
    /\ scale' = parked.scale
    /\ UNCHANGED <<filterVars, lwVars, evalVars, lib>>

\* the calls: 3 x 2 data with a trend, under uniform weights and with the
\* first column masked out (weight 0, which leaves one mode of variance for
\* a truncation of 2)
PairCalls ==
    << [x |-> [ndim |-> 2, v |-> RampMatrix(3, 2)], cutoff |-> 1, truncation |-> 2,
        weights |-> [form |-> "row", v |-> <<One, One>>]],
       [x |-> [ndim |-> 2, v |-> RampMatrix(3, 2)], cutoff |-> 1, truncation |-> 2,
        weights |-> [form |-> "row", v |-> <<Zero, One>>]] >>

InitPair ==
    /\ \E a \in 1..Len(PairCalls), b \in 1..Len(PairCalls) :
          LET first == PairCalls[a]
              second == PairCalls[b]
          IN
          \* either of the two may take the first step: one order is enough
          /\ a <= b
          /\ pc = "start" /\ err = "none"
          /\ x = first.x /\ weights = first.weights
          /\ cutoff = first.cutoff /\ truncation = first.truncation
          /\ scale = None /\ xs = None /\ eofL = None /\ eofE = None
          /\ pcs = None /\ pcs_filt = None /\ i = 0 /\ eigh_out = None
          /\ eig_lowfreq = None /\ eigv_lowfreq = None /\ eig_argsort = None
          /\ uvec = None /\ lfcs = None /\ lfps = None /\ j = 0 /\ ret = None
          /\ parked = StartFrame(second)
    /\ FilterIdle
    /\ LwIdle
    /\ EvalIdle
    /\ lib = NoCalls

NextPair ==
    \/ Prepare
    \/ ComputeEof
    \/ FilterPC
    \/ LowFreqEig
    \/ SortEig
    \/ Project
    \/ SignStep
    \/ RescaleReturn
    \/ Switch

SpecPair == InitPair /\ [][NextPair]_vars

\* ------------------------------------------------------------------------
\* Properties of lfca
\* ------------------------------------------------------------------------
NonNegative(w) == \A c \in 1..Len(w) : FGeZero(w[c])
PositiveSum(w) == LET total == FSum(w, Len(w)) IN IsFinite(total) /\ total[1] > 0
ValidWeights(w) == NonNegative(w) /\ PositiveSum(w)
ZeroWeights(w) == \A c \in 1..Len(w) : IsZero(w[c])
UniformWeights(w) == \A c \in 1..Len(w) : w[c] = One

LfcaCalled == pc # "idle"
\* the inputs the contract of lfca calls valid
ValidLfcaInput ==
    /\ LfcaCalled
    /\ x.ndim = 2
    /\ ValidWeights(weights.v)
    /\ cutoff >= 1
    /\ truncation >= 1
    /\ truncation <= Min(Rows(x.v), Cols(x.v))

\* the number of modes with a positive eigenvalue: the rank of xs
RECURSIVE CountPositive(_, _)
CountPositive(L, n) ==
    IF n = 0 THEN 0
    ELSE CountPositive(L, n - 1) + (IF IsFinite(L[n]) /\ L[n][1] > 0 THEN 1 ELSE 0)
\* the EOF decomposition is done and every requested mode has variance
WithinRank == eofL # None /\ truncation <= CountPositive(eofL, Len(eofL))
\* the series are longer than the cutoff period
LongerThanCutoff == Rows(x.v) > cutoff

\* C1: for every valid input (T x N data, N non-negative weights with a
\* positive sum, a positive cutoff, 1 <= K <= min(T, N), K = 1 included) the
\* call of lfca returns, LFC with shape (T, K) and LFP with shape (K, N).
\* Stated for the calls whose series are longer than the cutoff and whose
\* truncation is within the rank of the data.
C1_ShapesForValidInput ==
    (ValidLfcaInput /\ LongerThanCutoff /\ WithinRank) =>
        /\ pc # "error"
        /\ pc = "done" =>
              /\ Rows(ret.lfcs) = Rows(x.v) /\ Cols(ret.lfcs) = truncation
              /\ Rows(ret.lfps) = truncation /\ Cols(ret.lfps) = Cols(x.v)

\* C2: after the sort (lines 259-261) the low-frequency eigenvalues are
\* non-increasing, eig[j] >= eig[j+1], for every sequence eigh can return.
C2_EigNonIncreasing ==
    pc \in {"sorted", "sign", "done"} =>
        \A a \in 1..(Len(eig_lowfreq) - 1) : FGe(eig_lowfreq[a], eig_lowfreq[a + 1])

\* C3: for every returned component j, dot(LFP[j], weights) >= 0, for every
\* weight vector with non-negative entries and a positive sum.  Stated for
\* the calls whose truncation is within the rank of the data.
C3_SignConvention ==
    (pc = "done" /\ ValidWeights(weights.v) /\ WithinRank) =>
        \A a \in 1..Rows(ret.lfps) : FGeZero(Dot(ret.lfps[a], weights.v))

\* The components built from the eigenvectors eigh returned, taken in the
\* order of eig_argsort: column a of LFC and of LFP (N x K, before the
\* rescaling and the transposition) comes from the eigenvector paired with
\* the a-th eigenvalue of the sorted sequence.
MatVec(m, v) == [r \in 1..Rows(m) |-> Dot(m[r], v)]
Signed(sgn, v) == [r \in 1..Len(v) |-> FMul(Int2F(sgn), v[r])]
RotationVector(a) == Col(eigh_out.v, eig_argsort[a])
BuiltLfcs ==
    LET eof == [L |-> eofL, E |-> eofE]
        u(a) == MatVec(Transpose(Eofs1(eof, truncation)), RotationVector(a))
    IN Transpose([a \in 1..Len(eig_argsort) |-> MatVec(xs, u(a))])
BuiltLfps ==
    LET eof == [L |-> eofL, E |-> eofE]
        v(a) == MatVec(Transpose(Eofs2(eof, truncation)), RotationVector(a))
    IN Transpose([a \in 1..Len(eig_argsort) |-> v(a)])
\* columns a of c and of p are columns a of bc and of bp, both with one sign
SameUpToSign(c, p, bc, bp) ==
    \A a \in 1..Len(eig_argsort) :
        \E sgn \in {1, -1} :
            /\ Col(c, a) = Signed(sgn, Col(bc, a))
            /\ Col(p, a) = Signed(sgn, Col(bp, a))

\* C4: LFC and LFP share one ordering.  The permutation eig_argsort applied
\* to the eigenvalues is the one applied to the eigenvector columns, and for
\* every j column j of LFC and row j of LFP are built from the same
\* eigenvector, the one paired with the j-th largest eigenvalue.
C4_SharedOrdering ==
    /\ pc \in {"sorted", "sign", "done"} =>
          /\ Len(eig_argsort) = Len(eigh_out.w)
          /\ \A a, b \in 1..Len(eig_argsort) :
                /\ eig_argsort[a] \in 1..Len(eigh_out.w)
                /\ a # b => eig_argsort[a] # eig_argsort[b]
          /\ \A a \in 1..Len(eig_argsort) :
                /\ eig_lowfreq[a] = eigh_out.w[eig_argsort[a]]
                /\ Col(eigv_lowfreq, a) = RotationVector(a)
                /\ \A b \in a..Len(eig_argsort) :
                      AllFinite(eigh_out.w) => FGe(eig_lowfreq[a], eig_lowfreq[b])
    /\ pc = "sign" => SameUpToSign(lfcs, lfps, BuiltLfcs, BuiltLfps)
    /\ pc = "done" =>
          SameUpToSign(ret.lfcs, Transpose(ret.lfps),
                       BuiltLfcs, Rescale(BuiltLfps, scale).val)

\* a call that returned after eigh gave two different eigenvalues, which the
\* sort had to swap
C4_Witness ==
    /\ pc = "done"
    /\ Len(eig_argsort) = 2
    /\ AllFinite(eigh_out.w)
    /\ eigh_out.w[1] # eigh_out.w[2]
    /\ eig_argsort = <<2, 1>>

\* C6: a call of lfca whose weights are all zero ends in an invalid-parameter
\* error (ValueError) and returns nothing.
C6_ZeroWeightsRejected ==
    (LfcaCalled /\ ZeroWeights(weights.v)) =>
        /\ pc \in {"start", "prepared", "error"}
        /\ pc = "error" => err = "ValueError"
        /\ ret = None /\ lfcs = None /\ lfps = None

\* a 2-dimensional call with all-zero weights that was refused by the solver
C6_Witness ==
    /\ pc = "error" /\ err = "ValueError"
    /\ x.ndim = 2
    /\ ZeroWeights(weights.v)
    /\ xs # None /\ AllNaN(xs)

\* C7: a call of lfca with a truncation larger than the number of modes the
\* EOF decomposition has (the rank of the weighted matrix) ends in an
\* invalid-parameter error (ValueError) and returns nothing.  Stated for data
\* that is not all zeros.
C7_TruncationBeyondRank ==
    (LfcaCalled /\ eofL # None /\ ~AllZero(x.v) /\ ValidWeights(weights.v)
       /\ truncation > CountPositive(eofL, Len(eofL))) =>
        /\ pc # "done" /\ ret = None
        /\ pc = "error" => err = "ValueError"

\* C10: for data that is all zeros, with uniform weights and a valid cutoff
\* and truncation, lfca does not end in a numeric failure (LinAlgError) and
\* every entry of the returned LFC and LFP is zero (or NaN).
ZeroOrNaN(m) ==
    \A r \in 1..Rows(m) : \A c \in 1..Cols(m) : IsZero(m[r][c]) \/ IsNaN(m[r][c])
C10_ZeroDataNoNumericFailure ==
    (ValidLfcaInput /\ AllZero(x.v) /\ UniformWeights(weights.v)) =>
        /\ err # "LinAlgError"
        /\ pc = "done" => (ZeroOrNaN(ret.lfcs) /\ ZeroOrNaN(ret.lfps))

\* ------------------------------------------------------------------------
\* Properties of filter_ts and low_pass_weights
\* ------------------------------------------------------------------------
FilterTsCalled == f_pc # "idle"
SupportedFilter == f_filter_type \in {"lanczos", "butter"}
SupportedPadding == f_padding_type \in {"mirror", "periodic"}

\* C5: filter_ts returns a series as long as its input, for every input
\* length, every positive integer cutoff and every supported combination of
\* filter kind and padding kind.  Stated for the series of two or more
\* finite values.
C5_LengthPreserved ==
    (FilterTsCalled /\ SupportedFilter /\ SupportedPadding /\ AllFinite(f_ts)
       /\ Len(f_ts) >= 2 /\ f_cutoff >= 1) =>
        /\ f_pc # "error"
        /\ f_pc = "done" => Len(f_out) = Len(f_ts)

\* C9: filter_ts called with an unsupported filter kind or an unsupported
\* padding kind (one of them or both) ends in an error and returns no
\* filtered series.
C9_UnsupportedKindRejected ==
    (FilterTsCalled /\ ~(SupportedFilter /\ SupportedPadding)) =>
        /\ f_pc \in {"start", "weights", "padded", "error"}
        /\ f_out = None
        /\ f_pc = "error" => f_err # "none"
        /\ f_pc = "padded" => SupportedPadding

\* a supported padding with an unsupported filter kind, refused after the
\* padding was done
C9_Witness ==
    /\ f_pc = "error" /\ f_err = "ValueError"
    /\ SupportedPadding /\ ~SupportedFilter
    /\ f_mirr # None

\* C8: low_pass_weights called with a window of length 1, or with a cutoff
\* frequency <= 0, fails with an invalid-parameter error and returns no taps.
C8_BadWeightArgumentsRejected ==
    (lw_pc # "idle" /\ (lw_window = 1 \/ ~(lw_cutoff[1] > 0))) =>
        /\ lw_pc # "done"
        /\ lw_out = None

\* C11: for every odd window length W >= 3, low_pass_weights(W, c) returns
\* exactly W taps, symmetric about the centre tap (tap[i] = tap[W-1-i]), and
\* the centre tap is 2*c.
OddWindow == lw_window % 2 = 1 /\ lw_window >= 3
C11_TapsSymmetric ==
    (lw_pc = "done" /\ OddWindow) =>
        /\ Len(lw_out) = lw_window
        /\ \A p \in 1..lw_window : lw_out[p] = lw_out[lw_window + 1 - p]
        /\ \A p \in 1..lw_window : lw_out[p].k = Abs(p - (lw_window + 1) \div 2)
        /\ lw_out[(lw_window + 1) \div 2].v = FMul(Int2F(2), lw_cutoff)

\* a call that returned the five taps of a window of 5 for a cutoff of 1/4
C11_Witness ==
    /\ lw_pc = "done"
    /\ lw_window = 5
    /\ lw_cutoff = <<1, 4, 1>>
    /\ Len(lw_out) = 5

\* C12: lfca, and filter_ts and filter_padding within it, leave the arrays
\* the caller owns as they were: the data x, the weights and the series
\* handed to the filter have the same contents after every step, on the
\* successful and on the failing paths.  Centring, weighting, padding and
\* sign flipping write only arrays made inside the call.  (Switch hands the
\* turn to another invocation, with other inputs: it is not a step of the
\* call.)
C12_InputsUnchanged ==
    [][ /\ (LfcaCalled /\ parked' = parked) =>
              /\ x' = x
              /\ weights' = weights
              /\ pcs # None => pcs' = pcs
        /\ f_ts' = f_ts ]_vars

\* a call that returned for data the centring and the weighting both change
\* and in which a sign was flipped
C12_Witness ==
    /\ pc = "done"
    /\ Centre(x.v) # x.v
    /\ xs # Centre(x.v)
    /\ \E a \in 1..Len(eig_argsort) :
          /\ Col(lfcs, a) # Col(BuiltLfcs, a)
          /\ Col(lfcs, a) = Signed(-1, Col(BuiltLfcs, a))

\* ------------------------------------------------------------------------
\* Properties of two invocations
\* ------------------------------------------------------------------------
\* What an invocation that runs alone holds in its frame f: every local is
\* what the code computes from the invocation's own arguments and from its
\* own earlier locals, and an error is one its own step raises.
FrameEof(f) == [L |-> f.eofL, E |-> f.eofE]
RawLfcs(f) == MatMul(f.xs, f.uvec)
RawLfps(f) == MatMul(Transpose(Eofs2(FrameEof(f), f.truncation)), f.eigv_lowfreq)
NormalisedTo(m, raw, s, n) ==
    [r \in 1..Rows(m) |-> [q \in 1..Cols(m) |->
        IF q <= n /\ FlipsSign(raw, q, s) THEN FNeg(m[r][q]) ELSE m[r][q]]]
FilterOutcomes(f, k) ==
    FilterTsSet(f.pcs[k], f.cutoff, KwFilterType, KwPaddingType, KwDetrend)

AloneUpToEof(f) ==
    /\ f.xs # None =>
          /\ f.x.ndim = 2
          /\ f.scale = ScaleFromWeights(f.weights)
          /\ f.xs = Weighted(Centre(f.x.v), f.scale)
    /\ f.eofL # None =>
          /\ Returned(FrameEof(f)) \in EofSet(f.xs)
          /\ f.pcs = Pcs(f.xs, FrameEof(f), f.truncation)
          /\ f.i = Len(f.pcs_filt)
          /\ \A k \in 1..f.i : Returned(f.pcs_filt[k]) \in FilterOutcomes(f, k)
AloneUpToSort(f) ==
    /\ f.eigh_out # None =>
          /\ f.i = f.truncation
          /\ Returned(f.eigh_out) \in EighSet(Cov(f.pcs_filt))
    /\ f.eig_argsort # None =>
          /\ f.eig_argsort \in ArgsortDescending(f.eigh_out.w)
          /\ f.eig_lowfreq = Take(f.eigh_out.w, f.eig_argsort)
          /\ f.eigv_lowfreq = TakeColumns(f.eigh_out.v, f.eig_argsort)
AloneUpToReturn(f) ==
    /\ (f.uvec # None /\ f.pc # "done") =>
          /\ f.uvec = MatMul(Transpose(Eofs1(FrameEof(f), f.truncation)), f.eigv_lowfreq)
          /\ f.lfcs = NormalisedTo(RawLfcs(f), RawLfps(f), f.scale, f.j)
          /\ f.lfps = NormalisedTo(RawLfps(f), RawLfps(f), f.scale, f.j)
    /\ f.pc = "done" =>
          /\ f.lfcs = NormalisedTo(RawLfcs(f), RawLfps(f), f.scale, f.truncation)
          /\ Returned(Transpose(f.lfps)) =
                Rescale(NormalisedTo(RawLfps(f), RawLfps(f), f.scale, f.truncation), f.scale)
          /\ f.ret = [lfcs |-> f.lfcs, lfps |-> f.lfps]
AloneError(f) ==
    f.pc = "error" =>
        IF f.xs = None THEN f.x.ndim # 2 /\ f.err = "ValueError"
        ELSE IF f.eofL = None THEN Raised(f.err) \in EofSet(f.xs)
        ELSE IF f.eigh_out = None
        THEN \/ f.i < f.truncation /\ f.i + 1 > Len(f.pcs) /\ f.err = "IndexError"
             \/ f.i < f.truncation /\ f.i + 1 <= Len(f.pcs)
                  /\ Raised(f.err) \in FilterOutcomes(f, f.i + 1)
             \/ f.i = f.truncation /\ Raised(f.err) \in EighSet(Cov(f.pcs_filt))
        ELSE /\ f.uvec # None
             /\ f.j = Cols(f.lfps)
             /\ Rescale(f.lfps, f.scale).err = f.err
RunsAlone(f) ==
    AloneUpToEof(f) /\ AloneUpToSort(f) /\ AloneUpToReturn(f) /\ AloneError(f)

\* C13: two invocations of lfca, each with its own inputs, interleaved step
\* by step in any order: each holds at every step, and returns, what it
\* holds and returns when it runs alone; no step of one reads or writes
\* what the other wrote.
C13_InterleavingIndependent ==
    parked # None => RunsAlone(Frame) /\ RunsAlone(parked)

\* both invocations returned, one having taken steps while the other was
\* under way, and the results differ
C13_Witness ==
    /\ parked # None
    /\ pc = "done" /\ parked.pc = "done"
    /\ weights # parked.weights
    /\ ret # parked.ret
    /\ lib.eof # {} /\ Cardinality(lib.eof) = 2

\* C14: two calls of lfca with identical inputs return identical LFC and
\* LFP, or fail with the same exception: nothing in a call depends on hidden
\* state, on a random seed or on an earlier call.
SameInputs(f, g) ==
    /\ f.x = g.x /\ f.weights = g.weights
    /\ f.cutoff = g.cutoff /\ f.truncation = g.truncation
Ended(f) == f.pc \in {"done", "error"}
Sorted == pc \in {"sorted", "sign", "done"}
TiedPair(a, b) ==
    /\ a < b
    /\ IsFinite(eig_lowfreq[a])
    /\ eig_lowfreq[a] = eig_lowfreq[b]

\* C15 as stated: when eigh returns equal eigenvalues the descending sort
\* places the tied components in ascending order of their original solver
\* index (a stable sort on the negated eigenvalues), the eigenvector columns
\* reordered by the same permutation.
C15_TiesAscendingIndex ==
    Sorted =>
        /\ \A a, b \in 1..Len(eig_argsort) :
              TiedPair(a, b) => eig_argsort[a] < eig_argsort[b]
        /\ \A a \in 1..Len(eig_argsort) :
              Col(eigv_lowfreq, a) = Col(eigh_out.v, eig_argsort[a])

\* C15, amended: the order is the reverse of an ascending argsort of the
\* eigenvalues eigh returned, so tied components come in no guaranteed
\* order (in descending order of their original index when the ascending
\* sort kept them in place); eigenvalues and eigenvector columns are
\* reordered by that one permutation.
C15_TiesReversedAscending ==
    Sorted =>
        /\ Len(eig_argsort) = Len(eigh_out.w)
        /\ SortsAscending(eigh_out.w, Reverse(eig_argsort))
        /\ \A a \in 1..Len(eig_argsort) :
              /\ eig_lowfreq[a] = eigh_out.w[eig_argsort[a]]
              /\ Col(eigv_lowfreq, a) = Col(eigh_out.v, eig_argsort[a])

\* two equal eigenvalues, sorted, the component with the larger original
\* index first
C15_Witness ==
    /\ Sorted
    /\ \E a, b \in 1..Len(eig_argsort) :
          TiedPair(a, b) /\ eig_argsort[a] > eig_argsort[b]

\* ------------------------------------------------------------------------
\* The rescaling and the sign step
\* ------------------------------------------------------------------------
Projected == uvec # None
\* the patterns (N x K) after the sign loop, before the rescaling
SignNormalisedLfps ==
    NormalisedTo(RawLfps(Frame), RawLfps(Frame), scale, truncation)

\* C16: the rescaling divides every pattern entry by the scale factor of its
\* own spatial column, LFP[j][i] = (sign-normalised pattern of component j
\* at column i) / sqrt(w[i] / sum(w)), for every vector of N non-negative
\* weights with a positive sum, given as a 1-D array of length N or as a
\* 1 x N row.  Stated for the calls whose truncation is within the rank of
\* the data.
C16_RescaleByOwnColumn ==
    (Projected /\ ValidWeights(weights.v) /\ WithinRank) =>
        /\ pc # "error"
        /\ pc = "done" =>
              /\ Rows(ret.lfps) = truncation
              /\ Cols(ret.lfps) = Cols(x.v)
              /\ \A a \in 1..truncation, c \in 1..Cols(x.v) :
                    ret.lfps[a][c] = FDiv(SignNormalisedLfps[c][a], scale.v[c])

\* C17: the sign step negates, for each component j, both the pattern
\* column j and the component-series column j when dot(pattern column j,
\* scale) < 0, and neither otherwise: never one of the two alone, never a
\* column of another index.  The product of LFC column j with LFP row j is
\* the same before and after.
SignStepTaken == pc = "sign" /\ pc' = "sign" /\ j' = j + 1
Negated(col) == [r \in 1..Len(col) |-> FNeg(col[r])]
OuterProduct(u, v) == [r \in 1..Len(u) |-> [c \in 1..Len(v) |-> FMul(u[r], v[c])]]
C17_SignStepBothOrNeither ==
    [][ SignStepTaken =>
          /\ \A a \in 1..Cols(lfps) :
                IF a = j + 1 /\ FNegative(Dot(Col(lfps, a), scale.v))
                THEN /\ Col(lfps', a) = Negated(Col(lfps, a))
                     /\ Col(lfcs', a) = Negated(Col(lfcs, a))
                ELSE /\ Col(lfps', a) = Col(lfps, a)
                     /\ Col(lfcs', a) = Col(lfcs, a)
          /\ OuterProduct(Col(lfcs', j + 1), Col(lfps', j + 1))
                = OuterProduct(Col(lfcs, j + 1), Col(lfps, j + 1)) ]_vars

\* the sign loop is over; it flipped one component, whose series is finite
\* and not zero, and left another as it was
C17_Witness ==
    /\ pc = "sign"
    /\ j = Cols(lfps)
    /\ \E a, b \in 1..Cols(lfps) :
          /\ FlipsSign(RawLfps(Frame), a, scale)
          /\ AllFinite(Col(lfcs, a))
          /\ Col(lfcs, a) # Col(RawLfcs(Frame), a)
          /\ Col(lfps, a) = Negated(Col(RawLfps(Frame), a))
          /\ Col(lfcs, a) = Negated(Col(RawLfcs(Frame), a))
          /\ ~FlipsSign(RawLfps(Frame), b, scale)
          /\ Col(lfps, b) = Col(RawLfps(Frame), b)

\* ------------------------------------------------------------------------
\* Properties of filter_padding and of the Lanczos filter
\* ------------------------------------------------------------------------
Padded == f_pc \in {"padded", "done"} \/ (f_pc = "error" /\ f_mirr # None)
\* the coefficients polyfit can have returned to a call that went on
FittedSet ==
    IF f_detrend THEN { r.val : r \in { q \in PolyfitSet(f_ts) : q.err = "none" } }
    ELSE { <<Zero, Zero>> }
\* the residual at time t (0-based), and a value with the trend at time t
\* added back; without detrending the residual is the input and no trend is
\* added
Residual(z, t) == IF f_detrend THEN FSub(f_ts[t + 1], Poly1d(z, t)) ELSE f_ts[t + 1]
WithTrend(z, v, t) == IF f_detrend THEN FAdd(v, Poly1d(z, t)) ELSE v

\* C18: filter_padding(ts, p, kind, detrend) on a series of length L >= p
\* returns a series of length L + 2p.  Positions p..p+L-1 hold the input
\* (the residual plus the trend added back); left pad position i holds
\* residual[p-1-i] (mirror) or residual[L-p+i] (periodic); right pad position
\* p+L+i holds residual[L-1-i] (mirror) or residual[i] (periodic); each plus
\* the fitted polynomial at the padded time index (i-p on the left, L+i on
\* the right) when detrending is on.  Positions are 0-based as in the code;
\* sequences here start at 1.
C18_PaddingLayout ==
    (Padded /\ Len(f_ts) >= f_n_pad) =>
        LET L == Len(f_ts)
            p == f_n_pad
            mirror == f_padding_type = "mirror"
        IN /\ Len(f_mirr) = L + 2 * p
           /\ \E z \in FittedSet :
                 /\ \A t \in 0..(L - 1) :
                       /\ f_mirr[p + t + 1] = WithTrend(z, Residual(z, t), t)
                       /\ f_mirr[p + t + 1] = f_ts[t + 1]
                 /\ \A t \in 0..(p - 1) :
                       f_mirr[t + 1] =
                          WithTrend(z, Residual(z, IF mirror THEN p - 1 - t ELSE L - p + t), t - p)
                 /\ \A t \in 0..(p - 1) :
                       f_mirr[p + L + t + 1] =
                          WithTrend(z, Residual(z, IF mirror THEN L - 1 - t ELSE t), L + t)

\* a curve of five samples, detrended and mirrored with a pad of three: the
\* first padded sample is not the sample it mirrors, the trend being added
\* at another time index
C18_Witness ==
    /\ f_pc = "padded"
    /\ f_padding_type = "mirror"
    /\ f_detrend
    /\ Len(f_ts) = 5
    /\ f_n_pad = 3
    /\ AllFinite(f_ts)
    /\ f_mirr[1] # f_ts[3]

\* C19: in filter_ts with the Lanczos filter and a positive integer cutoff
\* c the pad is c + 1 long and the kernel has 2c + 1 taps (half-width c), so
\* each of the L retained samples is a weighted sum of samples of the padded
\* series only, none of the zeros the 'same' convolution assumes beyond the
\* ends, and retained sample i is centred on padded position i + c + 1
\* (0-based; here sample m, from 1, on padded position m + c + 1, from 1).
C19_LanczosWithinPadding ==
    (f_pc = "done" /\ f_filter_type = "lanczos") =>
        /\ f_n_pad = f_cutoff + 1
        /\ Len(f_weights) = 2 * f_cutoff + 1
        /\ Len(f_out) = Len(f_ts)
        /\ \A m \in 1..Len(f_out) :
              /\ f_out[m].centre = m + f_cutoff + 1
              /\ f_out[m].lo = f_out[m].centre - f_cutoff
              /\ f_out[m].hi = f_out[m].centre + f_cutoff
              /\ f_out[m].lo >= 1
              /\ f_out[m].hi <= Len(f_mirr)
              /\ ~f_out[m].zeros

\* five samples filtered with a cutoff of 3: the first and the last
\* retained sample read the whole of the left and of the right pad
C19_Witness ==
    /\ f_pc = "done"
    /\ f_filter_type = "lanczos"
    /\ f_cutoff = 3
    /\ Len(f_ts) = 5
    /\ Len(f_out) = 5
    /\ f_out[1].lo = 2
    /\ f_out[5].hi = Len(f_mirr) - 1

\* ------------------------------------------------------------------------
\* Properties of the evaluation loop
\* ------------------------------------------------------------------------
Ascending(idx) == \A k \in 1..(Len(idx) - 1) : idx[k] < idx[k + 1]
Among(idx, c) == \E k \in 1..Len(idx) : idx[k] = c

\* C20: in the evaluation loop the retained (weight != 0) and the discarded
\* (weight == 0) column indices partition the nlat*nlon columns; lfca is
\* handed exactly the retained columns, and their weights, in the same
\* order; the re-augmented pattern array has nlat*nlon columns, NaN at the
\* discarded ones and, at the k-th retained index, the k-th column of the
\* LFP lfca returned.
C20_RetainedColumnsRoundTrip ==
    e_pc \in {"called", "done"} =>
        LET n == Len(e_area)
        IN /\ Ascending(e_icol_ret) /\ Ascending(e_icol_disc)
           /\ \A c \in 1..n :
                 /\ Among(e_icol_ret, c) <=> ~IsZero(e_area[c])
                 /\ Among(e_icol_disc, c) <=> IsZero(e_area[c])
           /\ \A k \in 1..Len(e_icol_ret) : e_icol_ret[k] \in 1..n
           /\ \A k \in 1..Len(e_icol_disc) : e_icol_disc[k] \in 1..n
           /\ Len(e_icol_ret) + Len(e_icol_disc) = n
           /\ Cols(x.v) = Len(e_icol_ret)
           /\ weights.form = "row"
           /\ Len(weights.v) = Len(e_icol_ret)
           /\ \A k \in 1..Len(e_icol_ret) :
                 /\ Col(x.v, k) = Col(e_x_all, e_icol_ret[k])
                 /\ weights.v[k] = e_area[e_icol_ret[k]]
           /\ e_pc = "done" =>
                 /\ Rows(e_lfps_aug) = Rows(ret.lfps)
                 /\ \A a \in 1..Rows(e_lfps_aug) : Len(e_lfps_aug[a]) = n
                 /\ \A k \in 1..Len(e_icol_ret) :
                       Col(e_lfps_aug, e_icol_ret[k]) = Col(ret.lfps, k)
                 /\ \A k \in 1..Len(e_icol_disc) :
                       \A a \in 1..Rows(e_lfps_aug) : IsNaN(e_lfps_aug[a][e_icol_disc[k]])

\* a turn that left out the first of three columns and put it back: the
\* patterns lfca returned are finite and sit in columns 2 and 3
C20_Witness ==
    /\ e_pc = "done"
    /\ e_icol_disc = <<1>>
    /\ e_icol_ret = <<2, 3>>
    /\ \A a \in 1..Rows(ret.lfps) : AllFinite(ret.lfps[a])
    /\ \E a \in 1..Rows(ret.lfps) : ~IsZero(ret.lfps[a][1])
    /\ Col(e_lfps_aug, 2) = Col(ret.lfps, 1)
====
